---- MODULE Spec2Model ----
(***************************************************************************)
(* Weather forecast service: the code translator, the forecast cleaner,   *)
(* the forecast service (weather.py) and its HTTP boundary (app.py).      *)
(*                                                                         *)
(* Python values are modelled as follows.  A dict is a function whose     *)
(* DOMAIN is its key set; a list is a sequence (Python index i is         *)
(* sequence index i + 1); an optional value (None or a value) is a        *)
(* sequence of length 0 or 1; a formatted string is the sequence of its   *)
(* literal and interpolated parts; an ISO timestamp is an integer.        *)
(***************************************************************************)
EXTENDS Integers, Sequences, FiniteSets, TLC

VARIABLES
    trIn,     \* translator: the weather code handed to the translator
    trOut,    \* translator: <<>> before the call, <<string>> after it
    clIn,     \* cleaner: [wd |-> raw payload, hour |-> current local hour]
    clOut,    \* cleaner: <<>> before the call, <<outcome>> after it
    heap,     \* app.py: the dict objects, by object id (0 is response_dict)
    pc,       \* per request: where its handler stands
    args,     \* per request: request.args
    frame,    \* per request: the local variables of both get_forecast
    calls,    \* per request: the collaborator calls made so far, in order
    svcRet,   \* per request: what Weather.get_forecast returned, if it did
    httpRet,  \* per request: what the route returned, if it did
    clock     \* datetime.now(de_timezone).hour

trVars == <<trIn, trOut>>
clVars == <<clIn, clOut>>
svcVars == <<heap, pc, args, frame, calls, svcRet, httpRet, clock>>
vars == <<trIn, trOut, clIn, clOut,
          heap, pc, args, frame, calls, svcRet, httpRet, clock>>

(***************************************************************************)
(* Bounds of the model.                                                    *)
(***************************************************************************)
\* how far outside the table 0..99 the translator is tried
MaxOutside == 3
\* greatest number of daily timestamps in a raw payload
MaxDaily == 3
\* greatest number of hourly timestamps in a raw payload
MaxHourly == 36
\* number of requests in flight
NumReq == 2

(***************************************************************************)
(* Program constants.                                                      *)
(***************************************************************************)
\* range(current_hour, current_hour + 12)
HourlyWindow == 12
\* range(0, len(time) - 1)
DailyDrop == 1
\* datetime.hour is in 0..23
LastHour == 23

(***************************************************************************)
(* Weather._get_string_for_weather_code                                    *)
(***************************************************************************)
weather_dict ==
       0 :> "Wolkenentwicklung nicht bekannt, letzte Stunde"
    @@ 1 :> "Abnehmende Bewölkung, letzte Stunde"
    @@ 2 :> "Keine Bewölkungsänderung, letzte Stunde"
    @@ 3 :> "Zunehmende Bewölkung, letzte Stunde"
    @@ 4 :> "Sicht durch Rauch reduziert"
    @@ 5 :> "Dunst"
    @@ 6 :> "Schwebender Staub, ohne Windeinwirkung"
    @@ 7 :> "Staub oder Sand, vom Wind gehoben"
    @@ 8 :> "Staubteufel"
    @@ 9 :> "Staub- oder Sandsturm an der Station, oder in Sichtweite"
    @@ 10 :> "feuchter Dunst/schwacher Nebel"
    @@ 11 :> "Nebelschwaden am Boden"
    @@ 12 :> "Durchgehend Bodennebel"
    @@ 13 :> "Wetterleuchten (kein Donner)"
    @@ 14 :> "Niederschlag sichtbar, erreicht nicht den Boden"
    @@ 15 :> "Niederschlag in der Ferne, erreicht Boden"
    @@ 16 :> "Niederschlag in der Nähe, erreicht Boden"
    @@ 17 :> "Gewitter hörbar, kein Niederschlag"
    @@ 18 :> "Markante Windböen"
    @@ 19 :> "Tornado, Wasserhose oder Funnel"
    @@ 20 :> "Nach Sprühregen"
    @@ 21 :> "Nach Regen"
    @@ 22 :> "Nach Schnee"
    @@ 23 :> "Nach Schneeregen"
    @@ 24 :> "Nach gefrierendem Regen"
    @@ 25 :> "Nach Regenschauern"
    @@ 26 :> "Nach Schneeschauern"
    @@ 27 :> "Nach Hagelschauern"
    @@ 28 :> "Nach Nebel"
    @@ 29 :> "Nach Gewitter"
    @@ 30 :> "Leichter/mäßiger Sandsturm, nachlassend"
    @@ 31 :> "Leichter/mäßiger Sandsturm, gleichbleibend"
    @@ 32 :> "Leichter/mäßiger Sandsturm, zunehmend"
    @@ 33 :> "Schwerer Sandsturm, nachlassend"
    @@ 34 :> "Schwerer Sandsturm, gleichbleibend"
    @@ 35 :> "Schwerer Sandsturm, zunehmend"
    @@ 36 :> "Leichtes/mäßiges Schneefegen"
    @@ 37 :> "Starkes Schneefegen"
    @@ 38 :> "Leichtes/mäßiges Schneetreiben"
    @@ 39 :> "Starkes Schneetreiben"
    @@ 40 :> "Nebel in der Ferne"
    @@ 41 :> "Nebelschwaden"
    @@ 42 :> "Nebel, Himmel sichtbar, abnehmend"
    @@ 43 :> "Nebel, Himmel verdeckt, abnehmend"
    @@ 44 :> "Nebel, Himmel sichtbar, gleichbleibend"
    @@ 45 :> "Nebel, Himmel verdeckt, gleichbleibend"
    @@ 46 :> "Nebel, Himmel sichtbar, zunehmend"
    @@ 47 :> "Nebel, Himmel verdeckt, zunehmend"
    @@ 48 :> "Raueis mit Nebel, Himmel sichtbar"
    @@ 49 :> "Raueis mit Nebel, Himmel verdeckt"
    @@ 50 :> "Leichter Sprühregen, unterbrochen"
    @@ 51 :> "Leichter Sprühregen, anhaltend"
    @@ 52 :> "Mäßiger Sprühregen, unterbrochen"
    @@ 53 :> "Mäßiger Sprühregen, anhaltend"
    @@ 54 :> "Starker Sprühregen, unterbrochen"
    @@ 55 :> "Starker Sprühregen, anhaltend"
    @@ 56 :> "Gefrierender Sprühregen, leicht"
    @@ 57 :> "Gefrierender Sprühregen, mäßig/stark"
    @@ 58 :> "Leichter Regen und Sprühregen"
    @@ 59 :> "Mäßiger/Starker Regen und Sprühregen"
    @@ 60 :> "Leichter Regen, unterbrochen"
    @@ 61 :> "Leichter Regen, anhaltend"
    @@ 62 :> "Mäßiger Regen, unterbrochen"
    @@ 63 :> "Mäßiger Regen, anhaltend"
    @@ 64 :> "Starker Regen, unterbrochen"
    @@ 65 :> "Starker Regen, anhaltend"
    @@ 66 :> "Gefrierender leichter Regen"
    @@ 67 :> "Gefrierender mäßiger/starker Regen"
    @@ 68 :> "Leichter Schneeregen"
    @@ 69 :> "Mäßiger/Starker Schneeregen"
    @@ 70 :> "Leichter Schneefall, unterbrochen"
    @@ 71 :> "Leichter Schneefall, anhaltend"
    @@ 72 :> "Mäßiger Schneefall, unterbrochen"
    @@ 73 :> "Mäßiger Schneefall, anhaltend"
    @@ 74 :> "Starker Schneefall, unterbrochen"
    @@ 75 :> "Starker Schneefall, anhaltend"
    @@ 76 :> "Eisnadeln"
    @@ 77 :> "Schneegriesel"
    @@ 78 :> "Schneekristalle"
    @@ 79 :> "Eiskörner"
    @@ 80 :> "Leichte Regenschauer"
    @@ 81 :> "Starke Regenschauer"
    @@ 82 :> "Sintflutartige Regenschauer"
    @@ 83 :> "Leichte Schneeregenschauer"
    @@ 84 :> "Starke Schneeregenschauer"
    @@ 85 :> "Leichte Schneeschauer"
    @@ 86 :> "Starke Schneeschauer"
    @@ 87 :> "Leichte Graupelschauer"
    @@ 88 :> "Starke Graupelschauer"
    @@ 89 :> "Leichte Hagelschauer ohne Gewitter"
    @@ 90 :> "Starke Hagelschauer ohne Gewitter"
    @@ 91 :> "Leichter Regen, letzte Stunde Gewitter hörbar"
    @@ 92 :> "Starker Regen, letzte Stunde Gewitter hörbar"
    @@ 93 :> "Leichter Schnee/Regen-Hagel, letzte Stunde Gewitter hörbar"
    @@ 94 :> "Starker Schnee/Regen-Hagel, letzte Stunde Gewitter hörbar"
    @@ 95 :> "Leichtes/mäßiges Gewitter mit Regen/Schnee"
    @@ 96 :> "Leichtes/mäßiges Gewitter mit Hagel"
    @@ 97 :> "Schweres Gewitter mit Regen/Schnee"
    @@ 98 :> "Gewitter mit Sandsturm"
    @@ 99 :> "Schweres Gewitter mit Hagel"

\* a weather_dict.get(...) that treats the key 0 as a missing key
GetStringZeroUnknown(weather_code) ==
    IF weather_code # 0 /\ weather_code \in DOMAIN weather_dict
    THEN weather_dict[weather_code]
    ELSE "unbekannt"

\* weather_dict.get(weather_code, "unbekannt")
_get_string_for_weather_code(weather_code) ==
    IF weather_code \in DOMAIN weather_dict
    THEN weather_dict[weather_code]
    ELSE "unbekannt"

(***************************************************************************)
(* Raw provider payloads (the dict OpenMeteo.get_dict() returns).  Only    *)
(* the fields the cleaner reads are kept.                                  *)
(***************************************************************************)
DailyFields ==
    <<"temperature_2m_max", "temperature_2m_min", "precipitation_sum",
      "weathercode", "windspeed_10m_max", "winddirection_10m_dominant",
      "time">>

HourlyFields ==
    <<"temperature_2m", "precipitation", "weathercode", "windspeed_10m",
      "winddirection_10m", "pressure_msl", "relativehumidity_2m", "time">>

Range(s) == {s[k] : k \in 1..Len(s)}

\* The value a payload carries in array `field` at Python index i.  The
\* time array repeats one timestamp from index dupAt on when dupAt > 0 (as
\* local timestamps do when the clock is set back); the weather codes run
\* through codes inside and outside the table; every other array carries
\* a value that identifies its field and index.
RawValue(field, k, i, dupAt) ==
    IF field = "time" THEN (IF dupAt > 0 /\ i >= dupAt THEN i - 1 ELSE i)
    ELSE IF field = "weathercode" THEN ((i * 37) % 104) - 2
    ELSE 1000 * k + i

\* One time scale of a payload: n timestamps, array `short` cut by one
\* entry, key `missing` absent ("" for none).
RawScale(fields, n, dupAt, short, missing) ==
    [f \in Range(fields) \ {missing} |->
        LET k == CHOOSE j \in 1..Len(fields) : fields[j] = f
            len == IF f = short /\ n > 0 THEN n - 1 ELSE n
        IN  [p \in 1..len |-> RawValue(f, k, p - 1, dupAt)]]

RawForecast(d, h) == [daily |-> d, hourly |-> h]

\* well-formed scales of the greatest length
GoodDaily == RawScale(DailyFields, MaxDaily, 0, "", "")
GoodHourly == RawScale(HourlyFields, MaxHourly, 0, "", "")

DailyScales(maxN) ==
    {RawScale(DailyFields, n, dup, "", "") :
        n \in 0..maxN, dup \in 0..maxN} \cup
    {RawScale(DailyFields, n, 0, sh, "") :
        n \in 0..maxN, sh \in {"time", "temperature_2m_max"}} \cup
    {RawScale(DailyFields, n, 0, "", mi) :
        n \in 0..maxN, mi \in {"time", "weathercode"}}

HourlyScales(lens) ==
    {RawScale(HourlyFields, n, dup, "", "") :
        n \in lens, dup \in {0} \cup lens} \cup
    {RawScale(HourlyFields, n, 0, sh, "") :
        n \in lens, sh \in {"time", "relativehumidity_2m"}} \cup
    {RawScale(HourlyFields, n, 0, "", mi) :
        n \in lens, mi \in {"time", "temperature_2m"}}

(***************************************************************************)
(* Python exceptions, by the text str(e) gives.                            *)
(***************************************************************************)
Ok(v) == [ok |-> TRUE, v |-> v]
Raise(text) == [ok |-> FALSE, error |-> text]

\* str(IndexError) of a list subscript
IndexErrorText == <<"list index out of range">>
\* str(KeyError(key)) is the repr of the key
KeyErrorText(key) == <<"'", key, "'">>

(***************************************************************************)
(* Weather._clean_weather_data                                             *)
(***************************************************************************)
\* weather_data[scale][field][i]
Subscript(weather_data, scale, field, i) ==
    IF scale \notin DOMAIN weather_data THEN Raise(KeyErrorText(scale))
    ELSE IF field \notin DOMAIN weather_data[scale]
         THEN Raise(KeyErrorText(field))
    ELSE IF i + 1 > Len(weather_data[scale][field]) THEN Raise(IndexErrorText)
    ELSE Ok(weather_data[scale][field][i + 1])

\* len(weather_data[scale]['time'])
TimeLen(weather_data, scale) ==
    IF scale \notin DOMAIN weather_data THEN Raise(KeyErrorText(scale))
    ELSE IF "time" \notin DOMAIN weather_data[scale]
         THEN Raise(KeyErrorText("time"))
    ELSE Ok(Len(weather_data[scale]["time"]))

\* The subscripts of one loop body, in evaluation order: the fields of the
\* record on the right-hand side first, the key weather_data[..]['time'][i]
\* last.  The first one that raises decides the outcome.
Reads(weather_data, scale, fields, i) ==
    LET look == [k \in 1..Len(fields) |->
                    Subscript(weather_data, scale, fields[k], i)]
        bad == {k \in 1..Len(fields) : ~look[k].ok}
    IN  IF bad # {}
        THEN look[CHOOSE k \in bad : \A j \in bad : k <= j]
        ELSE Ok([k \in 1..Len(fields) |-> look[k].v])

\* cleaned_data['daily'][...] = {...} for index i
DailyEntry(weather_data, i) ==
    LET r == Reads(weather_data, "daily", DailyFields, i)
    IN  IF ~r.ok THEN r
        ELSE Ok([key |-> r.v[7],
                 rec |-> [max_temp |-> r.v[1],
                          min_temp |-> r.v[2],
                          niederschlag |-> r.v[3],
                          wetter |-> _get_string_for_weather_code(r.v[4]),
                          wind_geschwindigkeit |-> r.v[5],
                          wind_richtung |-> r.v[6]]])

\* cleaned_data['hourly'][...] = {...} for index i
HourlyEntry(weather_data, i) ==
    LET r == Reads(weather_data, "hourly", HourlyFields, i)
    IN  IF ~r.ok THEN r
        ELSE Ok([key |-> r.v[8],
                 rec |-> [temp |-> r.v[1],
                          niederschlag |-> r.v[2],
                          wetter |-> _get_string_for_weather_code(r.v[3]),
                          wind_geschwindigkeit |-> r.v[4],
                          wind_richtung |-> r.v[5],
                          luftdruck |-> r.v[6],
                          luftfeuchte |-> r.v[7]]])

\* d[key] = rec on a dict: a new key is added, an existing key is overwritten
SetItem(d, key, rec) ==
    [k \in DOMAIN d \cup {key} |-> IF k = key THEN rec ELSE d[k]]

EmptyDict == [k \in {} |-> k]

\* range(0, len(time) - 1) with the upper end n - 2 spelled n - 1
DailyStopAtLen(n) == n

\* the stop of range(0, len(weather_data['daily']['time']) - 1)
DailyStop(n) == n - DailyDrop

\* range(current_hour, current_hour + 12) one entry short
HourlyStopShort(current_hour) == current_hour + HourlyWindow - 1

\* the stop of range(current_hour, current_hour + 12)
HourlyStop(current_hour) == current_hour + HourlyWindow

\* for i in range(i, stop): one iteration, then the rest
RECURSIVE DailyLoop(_, _, _, _)
DailyLoop(weather_data, i, stop, daily) ==
    IF i >= stop THEN Ok(daily)
    ELSE LET e == DailyEntry(weather_data, i)
         IN  IF ~e.ok THEN e
             ELSE DailyLoop(weather_data, i + 1, stop,
                            SetItem(daily, e.v.key, e.v.rec))

RECURSIVE HourlyLoop(_, _, _, _)
HourlyLoop(weather_data, i, stop, hourly) ==
    IF i >= stop THEN Ok(hourly)
    ELSE LET e == HourlyEntry(weather_data, i)
         IN  IF ~e.ok THEN e
             ELSE HourlyLoop(weather_data, i + 1, stop,
                             SetItem(hourly, e.v.key, e.v.rec))

\* The whole function; current_hour is datetime.now(de_timezone).hour.
_clean_weather_data(weather_data, current_hour) ==
    LET n == TimeLen(weather_data, "daily")
    IN  IF ~n.ok THEN n
        ELSE LET daily == DailyLoop(weather_data, 0, DailyStop(n.v), EmptyDict)
             IN  IF ~daily.ok THEN daily
                 ELSE LET hourly == HourlyLoop(weather_data, current_hour,
                                               HourlyStop(current_hour),
                                               EmptyDict)
                      IN  IF ~hourly.ok THEN hourly
                          ELSE Ok([hourly |-> hourly.v, daily |-> daily.v])

Hours == 0..LastHour

(***************************************************************************)
(* Weather.get_forecast and its helpers (weather.py).                      *)
(***************************************************************************)
\* {'status': '', 'message': '', 'data': {}}
NewResponseDict == [status |-> "", message |-> <<>>, data |-> EmptyDict]

\* the ValueError text without the country
NotFoundTextCityOnly(city, country) ==
    <<"We could not find the coordinates for the City: ", city>>

\* f"We could not find the coordinates for the City: {city} in the
\* Country: {country}"
NotFoundText(city, country) ==
    <<"We could not find the coordinates for the City: ", city,
      " in the Country: ", country>>

\* _get_coordinates_for_city: location is <<>> when geocode returned None
_get_coordinates_for_city(city, country, location) ==
    IF location = <<>> THEN Raise(NotFoundText(city, country))
    ELSE Ok([latitude |-> location[1].latitude,
             longitude |-> location[1].longitude])

\* except ValueError as e: ... return response_dict, 400
GeocodeExcept(response_dict, text) ==
    [env |-> [response_dict EXCEPT !.status = "error", !.message = text],
     code |-> 400]

\* an except clause that hands out what had been cleaned so far
CleanExceptPartial(response_dict, text) ==
    [env |-> [response_dict EXCEPT !.status = "error", !.message = text,
                                   !.data = [hourly |-> EmptyDict,
                                             daily |-> EmptyDict]],
     code |-> 500]

\* except Exception as e: ... return response_dict, 500
CleanExcept(response_dict, text) ==
    [env |-> [response_dict EXCEPT !.status = "error", !.message = text],
     code |-> 500]

\* ret_str = ""; return ret_str
_get_ai_text(weather_data) == ""

\* an assembly that echoes the country in both fields
AssembleSwapped(response_dict, cleaned_data, city, country) ==
    LET c1 == SetItem(cleaned_data, "city", country)
        c2 == SetItem(c1, "country", country)
        c3 == SetItem(c2, "ai_text", _get_ai_text(c2))
    IN  [env |-> [response_dict EXCEPT
                     !.status = "success",
                     !.data = c3,
                     !.message =
                         <<"The weather data was successfully retrieved">>],
         code |-> 200]

\* cleaned_data['city'] = city ... return response_dict, 200
Assemble(response_dict, cleaned_data, city, country) ==
    LET c1 == SetItem(cleaned_data, "city", city)
        c2 == SetItem(c1, "country", country)
        c3 == SetItem(c2, "ai_text", _get_ai_text(c2))
    IN  [env |-> [response_dict EXCEPT
                     !.status = "success",
                     !.data = c3,
                     !.message =
                         <<"The weather data was successfully retrieved">>],
         code |-> 200]

\* a fetch moved inside the try block of the cleaning step
FetchExceptCaught(response_dict, text) == <<CleanExcept(response_dict, text)>>

\* uncleaned_data = self._get_weather_data(...) stands outside every try
\* block: no handler, so nothing is returned (<<>>) and the exception
\* leaves get_forecast
FetchExcept(response_dict, text) == <<>>

\* a geocoding failure that falls through to the fetch
AfterGeocodeFallThrough(found) == "fetch"

\* where get_forecast goes after the geocoding try block
AfterGeocode(found) == IF found THEN "fetch" ELSE "return"

(***************************************************************************)
(* The route /get_forecast (app.py).                                       *)
(***************************************************************************)
\* resp_dict = response_dict: a second name for the module-level dict
DictAlias(h, src, fresh) == [heap |-> h, ref |-> src]

\* response_dict.copy(): a new dict object with the same items
DictCopy(h, src, fresh) == [heap |-> SetItem(h, fresh, h[src]), ref |-> fresh]

\* request.args.get(key): <<>> is None
ArgsGet(a, key) == IF key \in DOMAIN a THEN <<a[key]>> ELSE <<>>

\* the loop over the keys in the order country, city
MissingParamsReversed(city, country) ==
    (IF country = <<>> THEN <<"country">> ELSE <<>>) \o
    (IF city = <<>> THEN <<"city">> ELSE <<>>)

\* for key in ['city', 'country']: if locals()[key] is None: append
MissingParams(city, country) ==
    (IF city = <<>> THEN <<"city">> ELSE <<>>) \o
    (IF country = <<>> THEN <<"country">> ELSE <<>>)

\* sep.join(parts), as the sequence of its parts and separators
RECURSIVE Join(_, _)
Join(sep, parts) ==
    IF Len(parts) = 0 THEN <<>>
    ELSE IF Len(parts) = 1 THEN parts
    ELSE <<parts[1], sep>> \o Join(sep, Tail(parts))

\* f"Missing parameters: {', '.join(missing_params)}"
MissingText(missing_params) ==
    <<"Missing parameters: ">> \o Join(", ", missing_params)

NoReturn == [kind |-> "none", body |-> EmptyDict, code |-> 0]

\* an exception that leaves the route: Flask answers it, not this code
Unhandled == [kind |-> "unhandled", body |-> EmptyDict, code |-> 0]

\* if forecast[1] != 200: return jsonify(forecast[0]), forecast[1]
\* return render_template('index.html', weather_data=forecast[0]['data'])
RouteReturn(forecast) ==
    IF forecast.code # 200
    THEN [kind |-> "json", body |-> forecast.env, code |-> forecast.code]
    ELSE [kind |-> "html", body |-> forecast.env.data, code |-> 200]

(***************************************************************************)
(* Specification Spec: NumReq requests to /get_forecast, interleaved at    *)
(* the collaborator calls.                                                 *)
(***************************************************************************)
Reqs == 1..NumReq

\* the object id of the module-level response_dict, and of request r's copy
TemplateId == 0
CopyId(r) == r

\* request.args of the requests
ArgDicts ==
    {EmptyDict,
     [city |-> "Berlin"],
     [country |-> "Deutschland"],
     [city |-> "Berlin", country |-> "Deutschland"],
     [city |-> "Atlantis", country |-> "Nirgendwo"]}

\* what Nominatim.geocode does: a location, None, or an exception of the
\* geocoder
GeocodeOutcomes == {"found", "none", "raise"}

SomeLocation == [latitude |-> 52, longitude |-> 13]

\* what OpenMeteo.get_dict returns to the interleaved requests: two days
\* of hours with one timestamp repeated
SharedPayloads ==
    {RawForecast(RawScale(DailyFields, 2, 0, "", ""),
                 RawScale(HourlyFields, 2 * HourlyWindow, HourlyWindow, "", ""))}

\* the hours at which the interleaved requests are served
SharedHours == {0, LastHour}

\* what OpenMeteo.get_dict returns to the single request
ProviderPayloads ==
    {RawForecast(d, h) :
        d \in {GoodDaily, RawScale(DailyFields, 0, 0, "", ""),
               RawScale(DailyFields, MaxDaily, 0, "weathercode", "")},
        h \in HourlyScales({0, HourlyWindow, 2 * HourlyWindow,
                            MaxHourly - 1, MaxHourly})} \cup
    {[daily |-> GoodDaily], [hourly |-> GoodHourly], EmptyDict}

ClIdle == clIn = [wd |-> EmptyDict, hour |-> 0] /\ clOut = <<>>
TrIdle == trIn = 0 /\ trOut = <<>>

\* one entry of the record of collaborator calls: the step and how it ended
Call(step, result) == [step |-> step, result |-> result]

NewFrame ==
    [resp_dict |-> <<>>, city |-> <<>>, country |-> <<>>,
     missing_params |-> <<>>, response_dict |-> <<>>, location |-> <<>>,
     uncleaned_data |-> <<>>, cleaned_data |-> <<>>]

SvcIdle ==
    /\ heap = [id \in {TemplateId} |-> NewResponseDict]
    /\ pc = [r \in Reqs |-> "idle"]
    /\ args = [r \in Reqs |-> EmptyDict]
    /\ frame = [r \in Reqs |-> NewFrame]
    /\ calls = [r \in Reqs |-> <<>>]
    /\ svcRet = [r \in Reqs |-> <<>>]
    /\ httpRet = [r \in Reqs |-> NoReturn]
    /\ clock = 0

Init ==
    /\ heap = [id \in {TemplateId} |-> NewResponseDict]
    /\ pc = [r \in Reqs |-> "idle"]
    /\ args = [r \in Reqs |-> EmptyDict]
    /\ frame = [r \in Reqs |-> NewFrame]
    /\ calls = [r \in Reqs |-> <<>>]
    /\ svcRet = [r \in Reqs |-> <<>>]
    /\ httpRet = [r \in Reqs |-> NoReturn]
    /\ clock \in SharedHours
    /\ TrIdle
    /\ ClIdle

\* app.py 24-28: copy the template, build the service, read the arguments
Request(r, a) ==
    /\ pc[r] = "idle"
    /\ LET c == DictCopy(heap, TemplateId, CopyId(r))
       IN  /\ heap' = c.heap
           /\ frame' = [frame EXCEPT ![r].resp_dict = <<c.ref>>,
                                     ![r].city = ArgsGet(a, "city"),
                                     ![r].country = ArgsGet(a, "country")]
    /\ args' = [args EXCEPT ![r] = a]
    /\ pc' = [pc EXCEPT ![r] = "check"]
    /\ UNCHANGED <<calls, svcRet, httpRet, clock, trVars, clVars>>

\* app.py 30-35 and 40, weather.py 27-31: collect the missing parameters;
\* with none missing enter Weather.get_forecast
CheckParams(r) ==
    /\ pc[r] = "check"
    /\ LET missing == MissingParams(frame[r].city, frame[r].country)
       IN  IF missing # <<>>
           THEN /\ frame' = [frame EXCEPT ![r].missing_params = missing]
                /\ pc' = [pc EXCEPT ![r] = "missing_message"]
           ELSE /\ frame' = [frame EXCEPT
                                ![r].response_dict = <<NewResponseDict>>]
                /\ pc' = [pc EXCEPT ![r] = "geocode"]
    /\ UNCHANGED <<heap, args, calls, svcRet, httpRet, clock, trVars, clVars>>

\* app.py 36: resp_dict['message'] = ...
MissingMessage(r) ==
    /\ pc[r] = "missing_message"
    /\ heap' = [heap EXCEPT ![frame[r].resp_dict[1]].message =
                                MissingText(frame[r].missing_params)]
    /\ pc' = [pc EXCEPT ![r] = "missing_status"]
    /\ UNCHANGED <<args, frame, calls, svcRet, httpRet, clock, trVars, clVars>>

\* app.py 37-38: resp_dict['status'] = 'error'; return jsonify(resp_dict), 400
MissingReturn(r) ==
    /\ pc[r] = "missing_status"
    /\ heap' = [heap EXCEPT ![frame[r].resp_dict[1]].status = "error"]
    /\ httpRet' = [httpRet EXCEPT ![r] =
                      [kind |-> "json",
                       body |-> heap'[frame[r].resp_dict[1]],
                       code |-> 400]]
    /\ pc' = [pc EXCEPT ![r] = "done"]
    /\ UNCHANGED <<args, frame, calls, svcRet, clock, trVars, clVars>>

\* weather.py 33-38 and 58-76, app.py 41-42: the geocoding step
Geocode(r, outcome) ==
    /\ pc[r] = "geocode"
    /\ calls' = [calls EXCEPT ![r] = Append(@, Call("geocode", outcome))]
    /\ IF outcome = "raise"
       THEN /\ pc' = [pc EXCEPT ![r] = "raised"]
            /\ httpRet' = [httpRet EXCEPT ![r] = Unhandled]
            /\ UNCHANGED <<frame, svcRet>>
       ELSE LET location == IF outcome = "found" THEN <<SomeLocation>>
                            ELSE <<>>
                got == _get_coordinates_for_city(frame[r].city[1],
                                                 frame[r].country[1], location)
            IN  IF AfterGeocode(got.ok) = "fetch"
                THEN /\ frame' = [frame EXCEPT ![r].location = location]
                     /\ pc' = [pc EXCEPT ![r] = "fetch"]
                     /\ UNCHANGED <<svcRet, httpRet>>
                ELSE LET ret == GeocodeExcept(frame[r].response_dict[1],
                                              got.error)
                     IN  /\ frame' = [frame EXCEPT
                                         ![r].response_dict = <<ret.env>>]
                         /\ svcRet' = [svcRet EXCEPT ![r] = <<ret>>]
                         /\ httpRet' = [httpRet EXCEPT ![r] = RouteReturn(ret)]
                         /\ pc' = [pc EXCEPT ![r] = "done"]
    /\ UNCHANGED <<heap, args, clock, trVars, clVars>>

\* the text of an exception of the forecast provider
ProviderErrorText == <<"provider request failed">>

\* weather.py 40 and 79-97: the fetch of the raw forecast; payload is <<>>
\* when the provider call raises
Fetch(r, payload) ==
    /\ pc[r] = "fetch"
    /\ calls' = [calls EXCEPT ![r] =
                    Append(@, Call("fetch", IF payload = <<>> THEN "raise"
                                            ELSE "ok"))]
    /\ IF payload = <<>>
       THEN LET caught == FetchExcept(frame[r].response_dict[1],
                                      ProviderErrorText)
            IN  IF caught = <<>>
                THEN /\ pc' = [pc EXCEPT ![r] = "raised"]
                     /\ httpRet' = [httpRet EXCEPT ![r] = Unhandled]
                     /\ UNCHANGED <<frame, svcRet>>
                ELSE /\ frame' = [frame EXCEPT
                                     ![r].response_dict = <<caught[1].env>>]
                     /\ svcRet' = [svcRet EXCEPT ![r] = caught]
                     /\ httpRet' = [httpRet EXCEPT ![r] =
                                       RouteReturn(caught[1])]
                     /\ pc' = [pc EXCEPT ![r] = "done"]
       ELSE /\ frame' = [frame EXCEPT ![r].uncleaned_data = payload]
            /\ pc' = [pc EXCEPT ![r] = "clean"]
            /\ UNCHANGED <<svcRet, httpRet>>
    /\ UNCHANGED <<heap, args, clock, trVars, clVars>>

\* weather.py 41-46 and 100-138, app.py 41-42: the cleaning step
CleanStep(r) ==
    /\ pc[r] = "clean"
    /\ LET got == _clean_weather_data(frame[r].uncleaned_data[1], clock)
       IN  IF got.ok
           THEN /\ frame' = [frame EXCEPT ![r].cleaned_data = <<got.v>>]
                /\ pc' = [pc EXCEPT ![r] = "narrate"]
                /\ UNCHANGED <<svcRet, httpRet>>
           ELSE LET ret == CleanExcept(frame[r].response_dict[1], got.error)
                IN  /\ frame' = [frame EXCEPT ![r].response_dict = <<ret.env>>]
                    /\ svcRet' = [svcRet EXCEPT ![r] = <<ret>>]
                    /\ httpRet' = [httpRet EXCEPT ![r] = RouteReturn(ret)]
                    /\ pc' = [pc EXCEPT ![r] = "done"]
    /\ calls' = [calls EXCEPT ![r] =
          Append(@, Call("clean",
                         IF _clean_weather_data(frame[r].uncleaned_data[1],
                                                clock).ok
                         THEN "ok" ELSE "error"))]
    /\ UNCHANGED <<heap, args, clock, trVars, clVars>>

\* weather.py 48-55 and 140-154, app.py 41-44: the narrative text, the
\* success envelope and the rendered page
Narrate(r) ==
    /\ pc[r] = "narrate"
    /\ calls' = [calls EXCEPT ![r] = Append(@, Call("narrate", "ok"))]
    /\ LET ret == Assemble(frame[r].response_dict[1], frame[r].cleaned_data[1],
                           frame[r].city[1], frame[r].country[1])
       IN  /\ frame' = [frame EXCEPT ![r].response_dict = <<ret.env>>,
                                     ![r].cleaned_data = <<ret.env.data>>]
           /\ svcRet' = [svcRet EXCEPT ![r] = <<ret>>]
           /\ httpRet' = [httpRet EXCEPT ![r] = RouteReturn(ret)]
    /\ pc' = [pc EXCEPT ![r] = "done"]
    /\ UNCHANGED <<heap, args, clock, trVars, clVars>>

Next ==
    \E r \in Reqs :
        \/ \E a \in ArgDicts : Request(r, a)
        \/ CheckParams(r)
        \/ MissingMessage(r)
        \/ MissingReturn(r)
        \/ \E outcome \in GeocodeOutcomes : Geocode(r, outcome)
        \/ \E p \in {<<>>} \cup {<<w>> : w \in SharedPayloads} : Fetch(r, p)
        \/ CleanStep(r)
        \/ Narrate(r)

Spec == Init /\ [][Next]_vars

(***************************************************************************)
(* Specification SpecOne: one request, every hour of the day, and the      *)
(* provider payloads well-formed and not.                                  *)
(***************************************************************************)
InitOne ==
    /\ heap = [id \in {TemplateId} |-> NewResponseDict]
    /\ pc = [r \in Reqs |-> "idle"]
    /\ args = [r \in Reqs |-> EmptyDict]
    /\ frame = [r \in Reqs |-> NewFrame]
    /\ calls = [r \in Reqs |-> <<>>]
    /\ svcRet = [r \in Reqs |-> <<>>]
    /\ httpRet = [r \in Reqs |-> NoReturn]
    /\ clock \in Hours
    /\ TrIdle
    /\ ClIdle

NextOne ==
    \/ \E a \in ArgDicts : Request(1, a)
    \/ CheckParams(1)
    \/ MissingMessage(1)
    \/ MissingReturn(1)
    \/ \E outcome \in GeocodeOutcomes : Geocode(1, outcome)
    \/ \E p \in {<<>>} \cup {<<w>> : w \in ProviderPayloads} : Fetch(1, p)
    \/ CleanStep(1)
    \/ Narrate(1)

SpecOne == InitOne /\ [][NextOne]_vars

(***************************************************************************)
(* Specification SpecTr: the translator applied to one code.               *)
(***************************************************************************)
\* greatest key of weather_dict
LastCode == 99

TranslatorCodes == ((0 - MaxOutside)..(LastCode + MaxOutside)) \cup {9999}

TrInit == trIn \in TranslatorCodes /\ trOut = <<>> /\ ClIdle /\ SvcIdle

Translate ==
    /\ trOut = <<>>
    /\ trOut' = <<_get_string_for_weather_code(trIn)>>
    /\ UNCHANGED <<trIn, clVars, svcVars>>

TrNext == Translate

SpecTr == TrInit /\ [][TrNext]_vars

(***************************************************************************)
(* Specification SpecClean: the cleaner applied to one payload at one      *)
(* local hour.                                                             *)
(***************************************************************************)
\* Every daily variant with the longest hourly scales, every hourly
\* variant with a well-formed daily scale, and payloads that lack a
\* top-level key.
CleanInputs ==
    {RawForecast(d, h) :
        d \in DailyScales(MaxDaily),
        h \in HourlyScales({MaxHourly - 1, MaxHourly})} \cup
    {RawForecast(GoodDaily, h) : h \in HourlyScales(0..MaxHourly)} \cup
    {[daily |-> GoodDaily], [hourly |-> GoodHourly], EmptyDict}

ClInit ==
    /\ clIn \in [wd : CleanInputs, hour : Hours]
    /\ clOut = <<>>
    /\ TrIdle
    /\ SvcIdle

Clean ==
    /\ clOut = <<>>
    /\ clOut' = <<_clean_weather_data(clIn.wd, clIn.hour)>>
    /\ UNCHANGED <<clIn, trVars, svcVars>>

ClNext == Clean

SpecClean == ClInit /\ [][ClNext]_vars

(***************************************************************************)
(* Claims about the translator (SpecTr).                                   *)
(***************************************************************************)
\* C6: the translator is total: every code 0..99 gives that code's table
\* string (never the sentinel), every other code gives "unbekannt".
C6_TranslatorTotal ==
    trOut # <<>> =>
        /\ Len(trOut) = 1
        /\ trIn \in 0..LastCode =>
              trOut[1] = weather_dict[trIn] /\ trOut[1] # "unbekannt"
        /\ trIn \notin 0..LastCode => trOut[1] = "unbekannt"

\* the last code of the table has been translated to its table string
C6_Witness ==
    /\ trIn = LastCode
    /\ trOut = <<"Schweres Gewitter mit Hagel">>

(***************************************************************************)
(* Claims about the cleaner (SpecClean).                                   *)
(***************************************************************************)
\* the record the code documents for daily index i
ExpectDaily(wd, i) ==
    [max_temp |-> wd.daily.temperature_2m_max[i + 1],
     min_temp |-> wd.daily.temperature_2m_min[i + 1],
     niederschlag |-> wd.daily.precipitation_sum[i + 1],
     wetter |-> _get_string_for_weather_code(wd.daily.weathercode[i + 1]),
     wind_geschwindigkeit |-> wd.daily.windspeed_10m_max[i + 1],
     wind_richtung |-> wd.daily.winddirection_10m_dominant[i + 1]]

\* the record the code documents for hourly index i
ExpectHourly(wd, i) ==
    [temp |-> wd.hourly.temperature_2m[i + 1],
     niederschlag |-> wd.hourly.precipitation[i + 1],
     wetter |-> _get_string_for_weather_code(wd.hourly.weathercode[i + 1]),
     wind_geschwindigkeit |-> wd.hourly.windspeed_10m[i + 1],
     wind_richtung |-> wd.hourly.winddirection_10m[i + 1],
     luftdruck |-> wd.hourly.pressure_msl[i + 1],
     luftfeuchte |-> wd.hourly.relativehumidity_2m[i + 1]]

Window(H) == H..(H + HourlyWindow - 1)

\* some hourly array the cleaner reads ends before index H + 11
HourlyTooShort(wd, H) ==
    /\ "hourly" \in DOMAIN wd
    /\ \E f \in DOMAIN wd.hourly : Len(wd.hourly[f]) < H + HourlyWindow

\* the greatest index of idx whose timestamp is k
LastIndexOf(time, idx, k) ==
    CHOOSE i \in idx : time[i + 1] = k /\
        \A j \in idx : time[j + 1] = k => j <= i

\* C3 as stated: a successful cleaning returns exactly 12 hourly keys,
\* hourly.time[H..H+11], each record built from the same index; arrays
\* that are too short make the cleaning fail.
C3_AsStated ==
    clOut # <<>> =>
        LET out == clOut[1]
            wd == clIn.wd
            H == clIn.hour
        IN  /\ HourlyTooShort(wd, H) => ~out.ok
            /\ out.ok =>
                /\ Cardinality(DOMAIN out.v.hourly) = HourlyWindow
                /\ DOMAIN out.v.hourly =
                       {wd.hourly.time[i + 1] : i \in Window(H)}
                /\ \A i \in Window(H) :
                       out.v.hourly[wd.hourly.time[i + 1]] = ExpectHourly(wd, i)

\* C3 amended: a successful cleaning returns as hourly keys the set of
\* values hourly.time[H..H+11], which has 12 elements exactly when these
\* timestamps are pairwise distinct; the record under a key is built from
\* the last index of the window that carries the key; arrays that are too
\* short make the cleaning fail.
C3_HourlyPass ==
    clOut # <<>> =>
        LET out == clOut[1]
            wd == clIn.wd
            H == clIn.hour
        IN  /\ HourlyTooShort(wd, H) => ~out.ok
            /\ out.ok =>
                LET time == wd.hourly.time
                    distinct == \A i, j \in Window(H) :
                                    time[i + 1] = time[j + 1] => i = j
                IN  /\ DOMAIN out.v.hourly = {time[i + 1] : i \in Window(H)}
                    /\ Cardinality(DOMAIN out.v.hourly) <= HourlyWindow
                    /\ distinct <=>
                           Cardinality(DOMAIN out.v.hourly) = HourlyWindow
                    /\ \A k \in DOMAIN out.v.hourly :
                           out.v.hourly[k] =
                               ExpectHourly(wd, LastIndexOf(time, Window(H), k))

\* a cleaning at the last hour of the day that returned 12 hourly records
C3_Witness ==
    /\ clOut # <<>>
    /\ clOut[1].ok
    /\ clIn.hour = LastHour
    /\ Cardinality(DOMAIN clOut[1].v.hourly) = HourlyWindow

\* C4 as stated: a successful cleaning of N daily timestamps returns
\* exactly N-1 daily keys, daily.time[0..N-2], never the last raw entry,
\* each record built from the same index.
C4_AsStated ==
    (clOut # <<>> /\ clOut[1].ok) =>
        LET daily == clOut[1].v.daily
            time == clIn.wd.daily.time
            N == Len(time)
        IN  /\ Cardinality(DOMAIN daily) = N - 1
            /\ DOMAIN daily = {time[i + 1] : i \in 0..(N - 2)}
            /\ time[N] \notin DOMAIN daily
            /\ \A i \in 0..(N - 2) :
                   daily[time[i + 1]] = ExpectDaily(clIn.wd, i)

\* C4 amended: a successful cleaning of N daily timestamps returns as
\* daily keys the set of values daily.time[0..N-2] (no key when N <= 1),
\* which has N-1 elements exactly when N >= 1 and these timestamps are
\* pairwise distinct; the record under a key is built from the last index
\* in 0..N-2 that carries the key, and index N-1 is never used.
C4_DailyPass ==
    (clOut # <<>> /\ clOut[1].ok) =>
        LET daily == clOut[1].v.daily
            time == clIn.wd.daily.time
            N == Len(time)
            idx == 0..(N - 2)
            distinct == \A i, j \in idx : time[i + 1] = time[j + 1] => i = j
        IN  /\ DOMAIN daily = {time[i + 1] : i \in idx}
            /\ (N >= 1 /\ distinct) <=> Cardinality(DOMAIN daily) = N - 1
            /\ \A k \in DOMAIN daily :
                   daily[k] = ExpectDaily(clIn.wd, LastIndexOf(time, idx, k))

\* a cleaning of MaxDaily distinct daily timestamps that returned one
\* record fewer
C4_Witness ==
    /\ clOut # <<>>
    /\ clOut[1].ok
    /\ Len(clIn.wd.daily.time) = MaxDaily
    /\ Cardinality(DOMAIN clOut[1].v.daily) = MaxDaily - 1

(***************************************************************************)
(* Claims about Weather.get_forecast (SpecOne).                            *)
(***************************************************************************)
\* the call of request r to collaborator `step` ended with `result`
Called(r, step, result) ==
    \E i \in 1..Len(calls[r]) : calls[r][i] = Call(step, result)

\* C1: when geocoding returns no result, get_forecast returns status
\* "error", data {}, a message containing the city and the country that
\* were supplied, and the code 400.
C1_GeocodeNotFound ==
    \A r \in Reqs :
        Called(r, "geocode", "none") =>
            /\ Len(svcRet[r]) = 1
            /\ svcRet[r][1].code = 400
            /\ svcRet[r][1].env.status = "error"
            /\ svcRet[r][1].env.data = EmptyDict
            /\ args[r].city \in Range(svcRet[r][1].env.message)
            /\ args[r].country \in Range(svcRet[r][1].env.message)

\* a request whose place name was not found has been answered
C1_Witness ==
    \E r \in Reqs :
        /\ Called(r, "geocode", "none")
        /\ args[r].city = "Atlantis"
        /\ pc[r] = "done"
        /\ svcRet[r] # <<>>

\* C2: when the cleaning step fails, get_forecast returns status "error",
\* the failure's text as message, code 500 and data {}: no daily or hourly
\* records, no city, country or ai_text.
C2_CleanFailure ==
    \A r \in Reqs :
        Called(r, "clean", "error") =>
            LET failure == _clean_weather_data(frame[r].uncleaned_data[1],
                                               clock)
            IN  /\ ~failure.ok
                /\ svcRet[r] =
                       <<[env |-> [status |-> "error",
                                   message |-> failure.error,
                                   data |-> EmptyDict],
                          code |-> 500]>>
                /\ DOMAIN svcRet[r][1].env.data = {}

\* a cleaning that ran out of hourly entries has been answered with 500
C2_Witness ==
    \E r \in Reqs :
        /\ Called(r, "clean", "error")
        /\ svcRet[r] # <<>>
        /\ svcRet[r][1].env.message = IndexErrorText
        /\ clock > 0

\* both top-level keys and every field the cleaner reads are present, and
\* the arrays of one time scale have one length
WellFormed(wd) ==
    /\ DOMAIN wd = {"daily", "hourly"}
    /\ DOMAIN wd.daily = Range(DailyFields)
    /\ DOMAIN wd.hourly = Range(HourlyFields)
    /\ \A f \in DOMAIN wd.daily : Len(wd.daily[f]) = Len(wd.daily.time)
    /\ \A f \in DOMAIN wd.hourly : Len(wd.hourly[f]) = Len(wd.hourly.time)

\* request r got coordinates and a well-formed payload with at least 13
\* hourly entries from the current hour onward
C5_Case(r) ==
    /\ Called(r, "geocode", "found")
    /\ frame[r].uncleaned_data # <<>>
    /\ WellFormed(frame[r].uncleaned_data[1])
    /\ Len(frame[r].uncleaned_data[1].hourly.time) - clock >= HourlyWindow + 1

\* C5: with coordinates resolved and a well-formed payload of at least 13
\* hourly entries from the current hour onward, get_forecast returns
\* "success", the confirmation message and 200, data.city and data.country
\* the inputs, data.ai_text "", data.daily and data.hourly the cleaner's
\* output.
C5_EndToEnd ==
    \A r \in Reqs :
        (C5_Case(r) /\ pc[r] \notin {"clean", "narrate"}) =>
            LET cleaned == _clean_weather_data(frame[r].uncleaned_data[1],
                                               clock)
            IN  /\ cleaned.ok
                /\ Len(svcRet[r]) = 1
                /\ svcRet[r][1].code = 200
                /\ svcRet[r][1].env.status = "success"
                /\ svcRet[r][1].env.message =
                       <<"The weather data was successfully retrieved">>
                /\ DOMAIN svcRet[r][1].env.data =
                       {"hourly", "daily", "city", "country", "ai_text"}
                /\ svcRet[r][1].env.data.city = args[r].city
                /\ svcRet[r][1].env.data.country = args[r].country
                /\ svcRet[r][1].env.data.ai_text = ""
                /\ svcRet[r][1].env.data.daily = cleaned.v.daily
                /\ svcRet[r][1].env.data.hourly = cleaned.v.hourly

\* a request served at the last hour of the day has succeeded
C5_Witness ==
    \E r \in Reqs :
        /\ C5_Case(r)
        /\ clock = LastHour
        /\ pc[r] = "done"
        /\ args[r].city = "Berlin"
        /\ svcRet[r] # <<>>
        /\ svcRet[r][1].code = 200

\* C9: an exception of the provider fetch is not turned into an envelope:
\* get_forecast returns nothing, the exception leaves it and the route.
C9_FetchPropagates ==
    \A r \in Reqs :
        Called(r, "fetch", "raise") =>
            /\ svcRet[r] = <<>>
            /\ pc[r] = "raised"
            /\ httpRet[r] = Unhandled

\* a provider fetch has raised
C9_Witness ==
    \E r \in Reqs : Called(r, "fetch", "raise") /\ pc[r] = "raised"

StepOrder == <<"geocode", "fetch", "clean", "narrate">>

\* C10: the collaborator steps of one call run in the order geocode, fetch,
\* clean, narrate, each at most once; a step runs only after every earlier
\* step succeeded and a failed step ends the call; a call that returns
\* does so with 400, 500 or 200, and with 200 exactly when the status is
\* "success".
C10_LinearSteps ==
    \A r \in Reqs :
        /\ Len(calls[r]) <= Len(StepOrder)
        /\ \A i \in 1..Len(calls[r]) : calls[r][i].step = StepOrder[i]
        /\ \A i \in 1..(Len(calls[r]) - 1) :
               calls[r][i].result \in {"found", "ok"}
        /\ (calls[r] # <<>> /\
            calls[r][Len(calls[r])].result \notin {"found", "ok"}) =>
               pc[r] \in {"done", "raised"}
        /\ Len(svcRet[r]) <= 1
        /\ svcRet[r] # <<>> =>
               /\ svcRet[r][1].code \in {400, 500, 200}
               /\ svcRet[r][1].code = 200 <=>
                      svcRet[r][1].env.status = "success"
               /\ svcRet[r][1].code = 200 <=> Len(calls[r]) = Len(StepOrder)
               /\ pc[r] = "done"

\* one call has run all four steps and returned 200, at an hour at which
\* another payload would have failed
C10_Witness ==
    \E r \in Reqs :
        /\ Len(calls[r]) = Len(StepOrder)
        /\ svcRet[r] # <<>>
        /\ svcRet[r][1].code = 200
        /\ clock = HourlyWindow

(***************************************************************************)
(* Claims about the route /get_forecast (Spec).                            *)
(***************************************************************************)
\* "Missing parameters: " and the names absent from request.args a, spelled out
MissingMessageFor(a) ==
    IF "city" \notin DOMAIN a /\ "country" \notin DOMAIN a
    THEN <<"Missing parameters: ", "city", ", ", "country">>
    ELSE IF "city" \notin DOMAIN a
    THEN <<"Missing parameters: ", "city">>
    ELSE <<"Missing parameters: ", "country">>

\* request r has been received without city, without country or without both
MissingCase(r) ==
    /\ pc[r] # "idle"
    /\ DOMAIN args[r] # {"city", "country"}

\* C7: a request without city, country or both is answered with HTTP 400,
\* status "error", data {} and "Missing parameters: " followed by the
\* absent names in the order city, country, joined by ", "; the forecast
\* service is never invoked for it.
C7_MissingParameters ==
    \A r \in Reqs :
        MissingCase(r) =>
            /\ calls[r] = <<>>
            /\ svcRet[r] = <<>>
            /\ frame[r].response_dict = <<>>
            /\ pc[r] \in {"check", "missing_message", "missing_status", "done"}
            /\ pc[r] = "done" =>
                   httpRet[r] = [kind |-> "json",
                                 body |-> [status |-> "error",
                                           message |-> MissingMessageFor(args[r]),
                                           data |-> EmptyDict],
                                 code |-> 400]

\* a request without any parameter has been answered
C7_Witness ==
    \E r \in Reqs :
        /\ pc[r] = "done"
        /\ args[r] = EmptyDict
        /\ httpRet[r].code = 400

\* what the route answers to request r, from r's own inputs alone: its
\* arguments, what its collaborators gave it, and the hour
OwnAnswer(r) ==
    IF DOMAIN args[r] # {"city", "country"}
    THEN [kind |-> "json",
          body |-> [status |-> "error",
                    message |-> MissingMessageFor(args[r]),
                    data |-> EmptyDict],
          code |-> 400]
    ELSE IF Called(r, "geocode", "none")
    THEN [kind |-> "json",
          body |-> [status |-> "error",
                    message |->
                        <<"We could not find the coordinates for the City: ",
                          args[r].city, " in the Country: ", args[r].country>>,
                    data |-> EmptyDict],
          code |-> 400]
    ELSE LET cleaned == _clean_weather_data(frame[r].uncleaned_data[1], clock)
         IN  IF cleaned.ok
             THEN [kind |-> "html",
                   body |-> [hourly |-> cleaned.v.hourly,
                             daily |-> cleaned.v.daily,
                             city |-> args[r].city,
                             country |-> args[r].country,
                             ai_text |-> ""],
                   code |-> 200]
             ELSE [kind |-> "json",
                   body |-> [status |-> "error",
                             message |-> cleaned.error,
                             data |-> EmptyDict],
                   code |-> 500]

\* C8: whatever requests have run and however they interleave, the
\* module-level response_dict of app.py still has status '', message ''
\* and data {}, every request works on a dict object of its own, and the
\* answer to a request is made of its own inputs alone.
C8_RequestsIsolated ==
    /\ heap[TemplateId] = [status |-> "", message |-> <<>>, data |-> EmptyDict]
    /\ \A r \in Reqs :
           /\ frame[r].resp_dict # <<>> =>
                  /\ frame[r].resp_dict[1] # TemplateId
                  /\ \A q \in Reqs \ {r} :
                         frame[q].resp_dict # frame[r].resp_dict
           /\ pc[r] = "done" => httpRet[r] = OwnAnswer(r)

\* two requests with different outcomes have both been answered: one for
\* a missing parameter, one with a forecast
C8_Witness ==
    \E r, q \in Reqs :
        /\ r # q
        /\ pc[r] = "done" /\ httpRet[r].code = 400 /\ calls[r] = <<>>
        /\ pc[q] = "done" /\ httpRet[q].code = 200

====
